---- MODULE Spec2Model ----
(***************************************************************************)
(* State-machine model of the ml-service: the ARIMA wrapper                *)
(* (models/arima_model.py), the reliability model (models/rf_model.py),    *)
(* the synthetic history generator (data/synthetic.py), the daily          *)
(* aggregation (data/preprocessor.py) and the FastAPI service (main.py).   *)
(*                                                                         *)
(* Conventions.  A Python exception is the name of its class in a field    *)
(* `exc` ("none" when nothing was raised).  Python's None is the record    *)
(* None.  Calendar days are integers; a pandas Timestamp is a record       *)
(* [t |-> "Timestamp", v |-> d], a Python int is [t |-> "int", v |-> n],   *)
(* so that an operation that accepts only one of them can be told apart.   *)
(* A float is Num(n) (exact integer arithmetic) or NaN.                    *)
(***************************************************************************)
EXTENDS Integers, Sequences, FiniteSets, TLC

VARIABLES
    arima,        \* SpecArima: one ArimaModel object (order, model, model_fit)
    arima_call,   \* SpecArima: the last call made on it and how it ended
    errLog,       \* SpecArima: <<trained at call, exception class>> of every failed forecast
    ins_in,       \* SpecInsight: the arguments of generate_insight
    ins_out,      \* SpecInsight: what generate_insight computed
    risk_in,      \* SpecRisk: the arguments of generate_risk_narrative
    risk_out,     \* SpecRisk: the band and the narrative it returned
    aug_in,       \* SpecAugment: original_df and target_days
    aug_out,      \* SpecAugment: the frame generate_historical_data returned
    aug_again,    \* SpecAugment: the result of augmenting aug_out once more
    prep_in,      \* SpecPrep: the frame and the column given to prepare_arima_data
    prep_out,     \* SpecPrep: the daily series it returned
    phase,        \* Spec: where lifespan stands: "starting", "demand",
                  \*       "demand_fit", "spend", "spend_fit", "reliability"
                  \*       (its training blocks), then "serving"
    boot,         \* Spec: the locals of lifespan while it trains: full_df
                  \*       and the series prepared last
    models,       \* Spec: the module-level registry `models` of main.py
    data_context, \* Spec: the module-level `data_context` of main.py
    stdout,       \* Spec: the lines the startup printed, in order
    last          \* Spec: the last request served and its response

arimaVars == <<arima, arima_call, errLog>>
insightVars == <<ins_in, ins_out>>
riskVars == <<risk_in, risk_out>>
augVars == <<aug_in, aug_out, aug_again>>
prepVars == <<prep_in, prep_out>>
serviceVars == <<phase, boot, models, data_context, stdout, last>>

vars == <<arimaVars, insightVars, riskVars, augVars, prepVars, serviceVars>>

None == [kind |-> "None"]

\* The components a specification does not exercise stay as constructed.
ArimaIdle == arima = None /\ arima_call = None /\ errLog = {}
InsightIdle == ins_in = None /\ ins_out = None
RiskIdle == risk_in = None /\ risk_out = None
AugIdle == aug_in = None /\ aug_out = None /\ aug_again = None
PrepIdle == prep_in = None /\ prep_out = None
ServiceIdle ==
    /\ phase = "starting" /\ boot = None
    /\ models = None /\ data_context = None /\ stdout = None /\ last = None

----------------------------------------------------------------------------
(* Bounds of the model                                                     *)

\* largest `steps` / `days` a forecast is asked for
MaxSteps == 2
\* the last observed day of a training series is drawn from 1..MaxLastDay
MaxLastDay == 2

----------------------------------------------------------------------------
(* models/arima_model.py                                                   *)

FallbackOrder == <<1, 1, 0>>
DefaultOrder == <<5, 1, 0>>

\* ArimaModel.__init__
ArimaInit(order) == [order |-> order, model |-> None, model_fit |-> None]

\* A daily series handed to train: `freq` is "D" when the index carries a
\* frequency, "None" otherwise; `reindexable` tells whether asfreq('D') can
\* reindex it (pandas raises ValueError on an index with duplicate dates);
\* `last` is the last observed day.
SeriesSet ==
    [freq : {"D", "None"}, reindexable : BOOLEAN, last : 1..MaxLastDay]

\* The outcome of one ARIMA(series, order) + fit() attempt: the numerical
\* library decides it, so it is an input.  "ctor": the constructor raises,
\* "fit": fit() raises.
FitOutcomes == {"ok", "ctor", "fit"}

Fit(order, series) == [kind |-> "fit", order |-> order, last |-> series.last]

\* The fallback attempt of train: lines 26-30, and lines 33-36 when it fails.
TrainFallback(self, series, o2, fits) ==
    LET model2 == IF o2 = "ctor" THEN self.model
                  ELSE [kind |-> "ARIMA", order |-> FallbackOrder]
        fits2 == Append(fits, FallbackOrder)
    IN IF o2 = "ok"
       THEN [self |-> [self EXCEPT !.model = model2,
                                    !.model_fit = Fit(FallbackOrder, series)],
             ret |-> "True", exc |-> "none", fits |-> fits2]
       ELSE [self |-> [self EXCEPT !.model = model2, !.model_fit = None],
             ret |-> "False", exc |-> "none", fits |-> fits2]

\* ArimaModel.train(series): o1 / o2 are the outcomes of the primary and of
\* the fallback attempt.
train(self, series, o1, o2) ==
    IF series.freq = "None" /\ ~series.reindexable
    THEN \* line 19 is outside the try: asfreq raises to the caller
         [self |-> self, ret |-> "raise", exc |-> "ValueError", fits |-> <<>>]
    ELSE IF o1 = "ok"
         THEN [self |-> [self EXCEPT
                            !.model = [kind |-> "ARIMA", order |-> self.order],
                            !.model_fit = Fit(self.order, series)],
               ret |-> "True", exc |-> "none", fits |-> <<self.order>>]
         ELSE TrainFallback(
                  [self EXCEPT !.model =
                      IF o1 = "ctor" THEN self.model
                      ELSE [kind |-> "ARIMA", order |-> self.order]],
                  series, o2, <<self.order>>)

\* What the fitted model answers for one forecast day: opaque numbers with
\* lower <= mean <= upper, or NaN.
NaN == [nan |-> TRUE, v |-> 0]
Num(n) == [nan |-> FALSE, v |-> n]
Timestamp(d) == [t |-> "Timestamp", v |-> d]
PyInt(n) == [t |-> "int", v |-> n]

RowSet ==
    { [mean |-> Num(3), lower |-> Num(1), upper |-> Num(5)],
      [mean |-> Num(1), lower |-> Num(-2), upper |-> Num(4)],
      [mean |-> Num(-1), lower |-> Num(-3), upper |-> Num(1)],
      [mean |-> NaN, lower |-> NaN, upper |-> NaN] }

FrameValues(steps) == [1..steps -> RowSet]

\* ArimaModel.forecast(steps): `vals` are the fitted model's numbers.  The
\* frame is indexed by the days after the series' last day (a DatetimeIndex),
\* kept as the sequence of <<index label, row>> in index order.
\* get_forecast raises ValueError when steps < 1 (no prediction range).
forecast(self, steps, vals) ==
    IF self.model_fit = None
    THEN [exc |-> "ValueError", frame |-> <<>>]
    ELSE IF steps < 1
         THEN [exc |-> "ValueError", frame |-> <<>>]
         ELSE [exc |-> "none",
               frame |-> [i \in 1..steps |->
                            [idx |-> Timestamp(self.model_fit.last + i),
                             row |-> vals[i]]]]

----------------------------------------------------------------------------
(* SpecArima: any sequence of train / forecast calls on one ArimaModel     *)

OrderSet == {DefaultOrder, FallbackOrder}

othersArima == <<insightVars, riskVars, augVars, prepVars, serviceVars>>
OthersIdleArima == InsightIdle /\ RiskIdle /\ AugIdle /\ PrepIdle /\ ServiceIdle

InitArima ==
    /\ OthersIdleArima
    /\ arima \in {ArimaInit(o) : o \in OrderSet}
    /\ arima_call = [op |-> "init", ret |-> "none", exc |-> "none",
                     fits |-> <<>>, frame |-> <<>>, trained |-> FALSE,
                     steps |-> 0]
    /\ errLog = {}

Train ==
    \E series \in SeriesSet, o1 \in FitOutcomes, o2 \in FitOutcomes :
        LET r == train(arima, series, o1, o2)
        IN /\ arima' = r.self
           /\ arima_call' = [op |-> "train", ret |-> r.ret, exc |-> r.exc,
                             fits |-> r.fits, frame |-> <<>>,
                             trained |-> arima.model_fit # None, steps |-> 0]
           /\ UNCHANGED <<errLog, othersArima>>

Forecast ==
    \E steps \in 0..MaxSteps :
      \E vals \in FrameValues(steps) :
        LET r == forecast(arima, steps, vals)
        IN /\ arima_call' = [op |-> "forecast", ret |-> "none", exc |-> r.exc,
                             fits |-> <<>>, frame |-> r.frame,
                             trained |-> arima.model_fit # None,
                             steps |-> steps]
           /\ errLog' = IF r.exc = "none" THEN errLog
                        ELSE errLog \cup {<<arima.model_fit # None, r.exc>>}
           /\ UNCHANGED <<arima, othersArima>>

NextArima == Train \/ Forecast

SpecArima == InitArima /\ [][NextArima]_vars

\* C1 (as claimed): train never raises to its caller; it attempts the primary
\* order first and retries at most once, with (1,1,0); when it returns False
\* the model has no fit, and when it returns True model_fit is set.
C1_TrainNeverRaises ==
    arima_call.op = "train" =>
        /\ arima_call.exc = "none"
        /\ arima_call.ret \in {"True", "False"}
        /\ arima_call.fits \in {<<arima.order>>, <<arima.order, FallbackOrder>>}
        /\ (arima_call.ret = "False" => arima.model_fit = None)
        /\ (arima_call.ret = "True" => arima.model_fit # None)

\* C2 (as claimed): a forecast on a model that is not Trained fails and
\* produces no frame, a forecast succeeds only on a Trained model, and the
\* failure of the untrained case is a condition of its own: no failed forecast
\* of a Trained model raises the same exception class.
C2_NotTrainedIsDistinct ==
    /\ (arima_call.op = "forecast" /\ ~arima_call.trained =>
            arima_call.exc # "none" /\ arima_call.frame = <<>>)
    /\ (arima_call.op = "forecast" /\ arima_call.exc = "none" =>
            arima_call.trained)
    /\ \A e1 \in errLog : \A e2 \in errLog : e1[2] = e2[2] => e1[1] = e2[1]

----------------------------------------------------------------------------
(* ArimaModel.generate_insight                                             *)

\* history[-30:] is used when the history has at least Window points
Window == 30
\* strftime('%b %d') keeps month and day and drops the year (a year is taken
\* as 365 days)
DaysPerYear == 365

RECURSIVE SumSeq(_)
SumSeq(s) == IF s = <<>> THEN 0 ELSE Head(s) + SumSeq(Tail(s))

\* history[-n:]
LastN(s, n) == IF Len(s) <= n THEN s ELSE SubSeq(s, Len(s) - n + 1, Len(s))

Abs(x) == IF x < 0 THEN -x ELSE x

\* Python int(a / b) for b > 0: truncation toward zero
TruncDiv(a, b) == IF a >= 0 THEN a \div b ELSE -((-a) \div b)

\* Timestamp.strftime('%b %d')
StrfBd(ts) == [fmt |-> "%b %d", v |-> ts.v % DaysPerYear]

\* the rows of a frame whose mean is a number (pandas skips NaN in mean,
\* max and idxmax)
NumRows(frame) == SelectSeq(frame, LAMBDA e : ~e.row.mean.nan)
Means(frame) == [i \in 1..Len(NumRows(frame)) |-> NumRows(frame)[i].row.mean.v]

\* forecast['mean'].max()
MaxMean(frame) ==
    CHOOSE m \in {Means(frame)[i] : i \in 1..Len(Means(frame))} :
        \A i \in 1..Len(Means(frame)) : Means(frame)[i] <= m

\* forecast['mean'].idxmax(): the label of the first row holding the maximum
IdxMax(frame) ==
    LET rows == NumRows(frame)
        k == CHOOSE i \in 1..Len(rows) :
                /\ rows[i].row.mean.v = MaxMean(frame)
                /\ \A j \in 1..(i - 1) : rows[j].row.mean.v < MaxMean(frame)
    IN rows[k].idx

\* forecast['mean'].min() and idxmin(): what a trough would be
MinMean(frame) ==
    CHOOSE m \in {Means(frame)[i] : i \in 1..Len(Means(frame))} :
        \A i \in 1..Len(Means(frame)) : m <= Means(frame)[i]

IdxMin(frame) ==
    LET rows == NumRows(frame)
        k == CHOOSE i \in 1..Len(rows) :
                /\ rows[i].row.mean.v = MinMean(frame)
                /\ \A j \in 1..(i - 1) : rows[j].row.mean.v > MinMean(frame)
    IN rows[k].idx

\* lines 69-71; change_pct is the exact fraction n / d with d > 0
Trend(n, d) ==
    IF n > 5 * d THEN "increasing"
    ELSE IF n < -5 * d THEN "decreasing"
    ELSE "stable"

\* lines 73-75: the elif is tested only when the first test failed
Magnitude(n, d) ==
    IF Abs(n) > 20 * d THEN "significantly"
    ELSE IF Abs(n) > 50 * d THEN "drastically"
    ELSE "slightly"

\* generate_insight(history, forecast, metric_name): history is the sequence
\* of observed values (non-negative, non-empty), frame the result of forecast.
\* current_avg = cs / cn, future_avg = fs / fn, and
\* change_pct = 100 * (fs * cn - cs * fn) / (cs * fn), kept as the pair n, d.
\* The narrative is kept as its parts: the sentence chosen, the value and the
\* date it cites.  A forecast without any number makes idxmax fail.
generate_insight(history, frame, metric_name) ==
    IF NumRows(frame) = <<>>
    THEN [exc |-> "ValueError"]
    ELSE
    LET win == IF Len(history) >= Window THEN LastN(history, Window) ELSE history
        zero == SumSeq(win) = 0
        cs == IF zero THEN 1 ELSE SumSeq(win)
        cn == IF zero THEN 1 ELSE Len(win)
        fs == SumSeq(Means(frame))
        fn == Len(Means(frame))
        n == 100 * (fs * cn - cs * fn)
        d == cs * fn
        trend == Trend(n, d)
        peak_idx == IdxMax(frame)
        peak_val == MaxMean(frame)
    IN [exc |-> "none",
        metric |-> metric_name,
        trend |-> trend,
        magnitude |-> Magnitude(n, d),
        change |-> <<n, d>>,
        horizon |-> Len(frame),
        sentence |-> CASE trend = "increasing" -> "peak"
                       [] trend = "decreasing" -> "bottoming out"
                       [] OTHER -> "steady",
        value |-> CASE trend = "increasing" -> <<peak_val>>
                    [] trend = "decreasing" -> <<>>
                    [] OTHER -> <<TruncDiv(fs, fn)>>,
        date |-> CASE trend = "increasing" -> <<StrfBd(peak_idx)>>
                   [] trend = "decreasing" -> <<StrfBd(peak_idx)>>
                   [] OTHER -> <<>>,
        advice |-> CASE trend = "increasing" -> "buffer stock"
                     [] trend = "decreasing" -> "maintenance"
                     [] OTHER -> "hold inventory"]

----------------------------------------------------------------------------
(* SpecInsight: generate_insight applied to bounded histories and forecasts *)

\* longest history beyond the 30-point window
MaxOver == 2

Rep(x, k) == [i \in 1..k |-> x]

\* histories a^p b^q: shorter than, as long as and longer than the window
HistorySet ==
    { Rep(a, pq[1]) \o Rep(b, pq[2]) :
        a \in {0, 40}, b \in {0, 10},
        pq \in {<<0, 1>>, <<1, 1>>, <<1, Window - 1>>, <<MaxOver, Window - 1>>} }

InsightMeans == {-2, 4, 5, 8, 10, 11, 12, 15, 16}

\* forecast frames as forecast() builds them, from a series ending on day 1
InsightFrames ==
    UNION { { [i \in 1..k |->
                 [idx |-> Timestamp(1 + i),
                  row |-> [mean |-> Num(m[i]), lower |-> Num(m[i] - 1),
                           upper |-> Num(m[i] + 1)]]] :
              m \in [1..k -> InsightMeans] } : k \in 1..MaxSteps }

othersInsight == <<arimaVars, riskVars, augVars, prepVars, serviceVars>>

InitInsight ==
    /\ ArimaIdle /\ RiskIdle /\ AugIdle /\ PrepIdle /\ ServiceIdle
    /\ ins_in \in [history : HistorySet, frame : InsightFrames,
                   metric : {"Demand"}]
    /\ ins_out = None

GenerateInsight ==
    /\ ins_out = None
    /\ ins_out' = generate_insight(ins_in.history, ins_in.frame, ins_in.metric)
    /\ UNCHANGED <<ins_in, othersInsight>>

NextInsight == GenerateInsight

SpecInsight == InitInsight /\ [][NextInsight]_vars

\* |change_pct| of the computed insight against a threshold
AbsOver(k) == Abs(ins_out.change[1]) > k * ins_out.change[2]

\* C3 (as claimed): the qualifier is 'drastically' when |changePct| > 50,
\* 'significantly' when 20 < |changePct| <= 50 and 'slightly' when
\* |changePct| <= 20.
C3_MagnitudeBands ==
    ins_out # None /\ ins_out.exc = "none" =>
        ins_out.magnitude =
            IF AbsOver(50) THEN "drastically"
            ELSE IF AbsOver(20) THEN "significantly"
            ELSE "slightly"

\* C6 (as claimed): a decreasing trend cites the date of the minimum forecast
\* mean; an increasing trend cites the maximum forecast mean and its date.
C6_CitedExtremum ==
    ins_out # None /\ ins_out.exc = "none" =>
        /\ (ins_out.trend = "decreasing" =>
                ins_out.date = <<StrfBd(IdxMin(ins_in.frame))>>)
        /\ (ins_out.trend = "increasing" =>
                /\ ins_out.value = <<MaxMean(ins_in.frame)>>
                /\ ins_out.date = <<StrfBd(IdxMax(ins_in.frame))>>)

----------------------------------------------------------------------------
(* models/rf_model.py: SupplierReliabilityModel.generate_risk_narrative    *)

\* A probability is an integer number of ten-thousandths: 0.6 is 6000.
\* lines 43-45 with the first threshold taken non-strictly (a slip the band
\* boundaries would expose)
RiskLevelLoose(prob_on_time) ==
    IF prob_on_time <= 6000 THEN "High"
    ELSE IF prob_on_time < 8000 THEN "Medium"
    ELSE "Low"

\* lines 43-45
RiskLevel(prob_on_time) ==
    IF prob_on_time < 6000 THEN "High"
    ELSE IF prob_on_time < 8000 THEN "Medium"
    ELSE "Low"

AlpineClause == "Alpine route complexity is a primary risk factor. "
LongHaulClause == "Long-haul distance increases vulnerability to traffic. "
WinterClause == "Winter conditions may exacerbate delays. "
BufferClause == "Recommendation: buffer lead time by 24h."

Opt(cond, x) == IF cond THEN <<x>> ELSE <<>>

\* generate_risk_narrative(row_data, prob_on_time).  row_data holds
\* is_alpine_int, distance, month and day_of_week; day_of_week is <<>> when
\* the key is absent (row_data.get gives None, and None >= 4 raises).  The
\* narrative is the sequence of the sentences appended; its first element
\* stands for "Reliability Score: {int(prob * 100)}%. Risk Level: {level}. ".
generate_risk_narrative(row_data, prob_on_time) ==
    LET risk_level == RiskLevel(prob_on_time)
        head == <<[score |-> prob_on_time \div 100, level |-> risk_level]>>
    IN CASE risk_level = "High" ->
              [exc |-> "none", level |-> risk_level,
               narrative |->
                   <<"Major delays likely. ">>
                   \o Opt(row_data.is_alpine_int = 1, AlpineClause)
                   \o Opt(row_data.distance > 300, LongHaulClause)
                   \o Opt(row_data.month \in {12, 1, 2}, WinterClause)
                   \o <<BufferClause>>,
               head |-> head]
         [] risk_level = "Medium" ->
              IF row_data.day_of_week = <<>>
              THEN [exc |-> "TypeError", level |-> risk_level,
                    narrative |-> <<>>, head |-> head]
              ELSE [exc |-> "none", level |-> risk_level,
                    narrative |->
                        <<"Monitor closely. ">>
                        \o Opt(row_data.day_of_week[1] >= 4,
                               "Weekend traffic patterns may impact arrival. ")
                        \o <<"Ensure vehicle maintenance is up to date.">>,
                    head |-> head]
         [] OTHER ->
              [exc |-> "none", level |-> risk_level,
               narrative |->
                   <<"Route is performing optimally. No immediate actions required.">>,
               head |-> head]

----------------------------------------------------------------------------
(* SpecRisk: generate_risk_narrative applied to bounded rows               *)

RiskProbs == {0, 5500, 5999, 6000, 6001, 7999, 8000, 8500, 10000}

RiskRows ==
    [is_alpine_int : {0, 1}, distance : {15, 300, 301, 350},
     month : {1, 2, 6, 12}, day_of_week : {<<>>, <<3>>, <<4>>}]

othersRisk == <<arimaVars, insightVars, augVars, prepVars, serviceVars>>

InitRisk ==
    /\ ArimaIdle /\ InsightIdle /\ AugIdle /\ PrepIdle /\ ServiceIdle
    /\ risk_in \in [row : RiskRows, prob : RiskProbs]
    /\ risk_out = None

GenerateRiskNarrative ==
    /\ risk_out = None
    /\ risk_out' = generate_risk_narrative(risk_in.row, risk_in.prob)
    /\ UNCHANGED <<risk_in, othersRisk>>

NextRisk == GenerateRiskNarrative

SpecRisk == InitRisk /\ [][NextRisk]_vars

\* positions of a sentence in the returned narrative
Pos(c) == {i \in 1..Len(risk_out.narrative) : risk_out.narrative[i] = c}

\* C10: the band is High exactly when probability < 0.60, Medium exactly when
\* 0.60 <= probability < 0.80 and Low otherwise; a High narrative holds the
\* alpine clause iff the alpine flag is set, the long-haul clause iff
\* distance > 300, the winter clause iff month is 12, 1 or 2, in that order,
\* and ends with the 24-hour buffer recommendation.
C10_RiskBandsAndClauses ==
    risk_out # None =>
        /\ (risk_out.level = "High" <=> risk_in.prob < 6000)
        /\ (risk_out.level = "Medium" <=>
                risk_in.prob >= 6000 /\ risk_in.prob < 8000)
        /\ (risk_out.level = "Low" <=> risk_in.prob >= 8000)
        /\ (risk_out.level = "High" =>
              /\ risk_out.exc = "none"
              /\ (Pos(AlpineClause) # {} <=> risk_in.row.is_alpine_int = 1)
              /\ (Pos(LongHaulClause) # {} <=> risk_in.row.distance > 300)
              /\ (Pos(WinterClause) # {} <=> risk_in.row.month \in {12, 1, 2})
              /\ \A a \in Pos(AlpineClause), l \in Pos(LongHaulClause) : a < l
              /\ \A l \in Pos(LongHaulClause), w \in Pos(WinterClause) : l < w
              /\ \A a \in Pos(AlpineClause), w \in Pos(WinterClause) : a < w
              /\ Pos(BufferClause) = {Len(risk_out.narrative)}
              /\ \A c \in {AlpineClause, LongHaulClause, WinterClause} :
                    Cardinality(Pos(c)) <= 1)

\* Scenario D of the narrative: alpine, long-haul, winter, probability 0.55
C10_Witness ==
    /\ risk_out # None
    /\ risk_in.prob = 5500
    /\ risk_in.row.is_alpine_int = 1
    /\ risk_in.row.distance = 350
    /\ risk_in.row.month = 1
    /\ risk_out.level = "High"
    /\ Len(risk_out.narrative) = 5

----------------------------------------------------------------------------
(* data/synthetic.py: SyntheticGenerator.generate_historical_data          *)

\* A deliveryDate is a timestamp counted in ticks, TicksPerDay ticks to the
\* calendar day, so that a date carries a time of day and timedelta.days
\* floors.
TicksPerDay == 2
\* target_days is drawn from 0..MaxTarget
MaxTarget == 3
\* the drawn n_deliveries of a synthetic day is within 1..MaxPerDay
MaxPerDay == 2
\* original_df holds at most MaxReal records
MaxReal == 2

\* timedelta(days=k)
Days(k) == k * TicksPerDay

Dates(df) == {df[i].deliveryDate : i \in 1..Len(df)}
MinDate(df) == CHOOSE x \in Dates(df) : \A y \in Dates(df) : x <= y
MaxDate(df) == CHOOSE x \in Dates(df) : \A y \in Dates(df) : y <= x

\* (latest_date - earliest_date).days
SpanDays(df) == (MaxDate(df) - MinDate(df)) \div TicksPerDay

\* lines 22-23 with one day too few (an off-by-one in the span arithmetic)
DaysNeededShort(df, target_days) == target_days - SpanDays(df) - 1

\* lines 22-23
DaysNeeded(df, target_days) == target_days - SpanDays(df)

\* line 25 with a strict test (zero missing days would fall through to the
\* generation path)
SufficientStrict(days_needed) == days_needed < 0

\* line 25
Sufficient(days_needed) == days_needed <= 0

\* Series.unique(): the distinct values in order of first appearance
RECURSIVE Unique(_)
Unique(s) ==
    IF s = <<>> THEN <<>>
    ELSE LET r == Unique(SubSeq(s, 1, Len(s) - 1))
             x == s[Len(s)]
         IN IF \E i \in 1..Len(r) : r[i] = x THEN r ELSE Append(r, x)

Column(df, f) == [i \in 1..Len(df) |-> df[i][f]]

\* np.random.choice / DataFrame.sample: the k-th draw of a random stream
Draw(s, k) == s[(k % Len(s)) + 1]

\* lines 52-82: the j-th synthetic delivery of the i-th synthetic day.  rnd is
\* the random stream: the draws of np.random and random are its inputs.
SynthRow(df, i, j, date, rnd) ==
    LET vid == Draw(Unique(Column(df, "vehicleId")), rnd.pick + i + j)
        oid == Draw(Unique(Column(df, "originId")), rnd.pick + j)
        did == Draw(Unique(Column(df, "destinationId")), rnd.pick + i)
        template == Draw(SelectSeq(df, LAMBDA r : r.vehicleId = vid),
                         rnd.pick + j)
        noise == IF (i + j) % 2 = 0 THEN rnd.noise ELSE 10
    IN [id |-> <<"synth", i, j>>,
        originId |-> oid,
        destinationId |-> did,
        vehicleId |-> vid,
        demand |-> TruncDiv(template.demand * noise, 10),
        distance |-> template.distance,
        totalCost |-> (template.totalCost * noise) \div 10,
        deliveryDate |-> date,
        isAlpine |-> template.isAlpine,
        hasOvertime |-> IF (rnd.pick + i + j) % 2 = 0 THEN 1 ELSE 0,
        vehicleType |-> template.vehicleType]

\* lines 46-82: the rows of synthetic days lo .. hi - 1 in the order the loop
\* appends them, day i being i + 1 days before the earliest real date (the
\* range is halved so that the evaluation stays shallow)
RECURSIVE SynthRows(_, _, _, _)
SynthRows(df, lo, hi, rnd) ==
    IF lo >= hi THEN <<>>
    ELSE IF hi = lo + 1
    THEN LET date == MinDate(df) - Days(lo + 1)
         IN [j \in 1..rnd.counts[lo + 1] |-> SynthRow(df, lo, j - 1, date, rnd)]
    ELSE LET mid == (lo + hi) \div 2
         IN SynthRows(df, lo, mid, rnd) \o SynthRows(df, mid, hi, rnd)

\* the rows of df dated lo .. hi, ascending, rows of equal date in their
\* order in df
RECURSIVE RowsDated(_, _, _)
RowsDated(df, lo, hi) ==
    IF lo > hi THEN <<>>
    ELSE IF lo = hi THEN SelectSeq(df, LAMBDA r : r.deliveryDate = lo)
    ELSE LET mid == (lo + hi) \div 2
         IN RowsDated(df, lo, mid) \o RowsDated(df, mid + 1, hi)

\* sort_values('deliveryDate'): ascending by date; rows of equal date keep
\* their order
SortByDate(df) ==
    IF df = <<>> THEN <<>> ELSE RowsDated(df, MinDate(df), MaxDate(df))

\* generate_historical_data(target_days) on original_df
generate_historical_data(original_df, target_days, rnd) ==
    IF original_df = <<>>
    THEN [exc |-> "none", df |-> <<>>]
    ELSE LET df == original_df
             days_needed == DaysNeeded(df, target_days)
         IN IF Sufficient(days_needed)
            THEN [exc |-> "none", df |-> df]
            ELSE LET new_rows == SynthRows(df, 0, days_needed, rnd)
                 IN IF new_rows = <<>>
                    THEN \* line 86: an empty frame has no deliveryDate column
                         [exc |-> "KeyError", df |-> <<>>]
                    ELSE [exc |-> "none", df |-> SortByDate(new_rows \o df)]

----------------------------------------------------------------------------
(* SpecAugment: augmentation of bounded record sets, applied twice         *)

RealRecord(k, date, v) ==
    [id |-> <<"real", k, 0>>,
     originId |-> "o1",
     destinationId |-> IF v = "v1" THEN "d1" ELSE "d2",
     vehicleId |-> v,
     demand |-> IF v = "v1" THEN 15 ELSE 7,
     distance |-> IF v = "v1" THEN 40 ELSE 320,
     totalCost |-> IF v = "v1" THEN 200 ELSE 500,
     deliveryDate |-> date,
     isAlpine |-> v = "v2",
     hasOvertime |-> 0,
     vehicleType |-> IF v = "v1" THEN "van" ELSE "truck"]

\* timestamps of the real records: the start of day 0, later on day 0, the
\* start of day 1 and later on day 2
RealTicks == {0, 1, TicksPerDay, 2 * TicksPerDay + 1}

\* what DBFetcher.fetch_deliveries returns: records in ascending date order
OriginalFrames ==
    UNION { { [k \in 1..n |-> RealRecord(k, t[k], v[k])] :
                t \in {f \in [1..n -> RealTicks] :
                          \A a \in 1..n, b \in 1..n : a <= b => f[a] <= f[b]},
                v \in [1..n -> {"v1", "v2"}] } : n \in 0..MaxReal }

\* the random streams drawn from
RandomStreams(days) ==
    [counts : [1..days -> 1..MaxPerDay], pick : {0, 1}, noise : {9, 11}]

StreamsFor(df, target_days) ==
    IF df = <<>> \/ DaysNeeded(df, target_days) <= 0
    THEN RandomStreams(0)
    ELSE RandomStreams(DaysNeeded(df, target_days))

othersAug == <<arimaVars, insightVars, riskVars, prepVars, serviceVars>>

InitAugment ==
    /\ ArimaIdle /\ InsightIdle /\ RiskIdle /\ PrepIdle /\ ServiceIdle
    /\ aug_in \in [df : OriginalFrames, target_days : 0..MaxTarget]
    /\ aug_out = None
    /\ aug_again = None

\* SyntheticGenerator(df).generate_historical_data(target_days)
Augment ==
    /\ aug_out = None
    /\ \E rnd \in StreamsFor(aug_in.df, aug_in.target_days) :
          aug_out' = generate_historical_data(aug_in.df, aug_in.target_days, rnd)
    /\ UNCHANGED <<aug_in, aug_again, othersAug>>

\* SyntheticGenerator(result).generate_historical_data(target_days)
AugmentAgain ==
    /\ aug_out # None /\ aug_out.exc = "none"
    /\ aug_again = None
    /\ \E rnd \in StreamsFor(aug_out.df, aug_in.target_days) :
          aug_again' = generate_historical_data(aug_out.df, aug_in.target_days, rnd)
    /\ UNCHANGED <<aug_in, aug_out, othersAug>>

NextAugment == Augment \/ AugmentAgain

SpecAugment == InitAugment /\ [][NextAugment]_vars

\* the synthetic records of the returned frame and their dates
SynthOf(df) == SelectSeq(df, LAMBDA r : r.id[1] = "synth")

\* C7: for a non-empty record set the augmented result spans at least
\* target_days; when the input span is short, exactly target_days - span
\* synthetic days are generated, the k-th being k days before the earliest
\* real date, and each of them holds at least one record.
C7_Coverage ==
    aug_out # None /\ aug_in.df # <<>> =>
        /\ aug_out.exc = "none"
        /\ SpanDays(aug_out.df) >= aug_in.target_days
        /\ (SpanDays(aug_in.df) < aug_in.target_days =>
              /\ Dates(SynthOf(aug_out.df)) =
                    { MinDate(aug_in.df) - k * TicksPerDay :
                        k \in 1..(aug_in.target_days - SpanDays(aug_in.df)) }
              /\ Cardinality(Dates(SynthOf(aug_out.df))) =
                    aug_in.target_days - SpanDays(aug_in.df))

\* a short history starting in the middle of a day was padded by two days
C7_Witness ==
    /\ aug_out # None /\ aug_in.df # <<>>
    /\ aug_in.target_days - SpanDays(aug_in.df) = 2
    /\ MinDate(aug_in.df) % TicksPerDay # 0
    /\ Len(SynthOf(aug_out.df)) > 2
    /\ SpanDays(aug_out.df) = aug_in.target_days

\* C8: when the span of the records is already >= target_days the result is
\* the input (same records in the same order, nothing synthetic), and
\* augmenting an augmented result again with the same target_days returns
\* it unchanged.
C8_NoOpAndIdempotent ==
    /\ (aug_out # None /\ aug_in.df # <<>>
           /\ SpanDays(aug_in.df) >= aug_in.target_days =>
              aug_out = [exc |-> "none", df |-> aug_in.df])
    /\ (aug_again # None => aug_again = aug_out)

\* a result that did receive synthetic days was augmented a second time
C8_Witness ==
    /\ aug_again # None
    /\ aug_in.df # <<>>
    /\ SynthOf(aug_out.df) # <<>>
    /\ Len(aug_again.df) = Len(aug_out.df)

\* a sufficient input (span equal to the target) came back as it was
C8_WitnessNoOp ==
    /\ aug_out # None /\ aug_in.df # <<>>
    /\ aug_in.target_days > 0
    /\ SpanDays(aug_in.df) = aug_in.target_days
    /\ aug_out.df = aug_in.df

----------------------------------------------------------------------------
(* data/preprocessor.py: Preprocessor.prepare_arima_data                   *)

\* deliveryDate.dt.date: the calendar day of a timestamp
DayOf(t) == t \div TicksPerDay

\* groupby(date)[column].sum() for one day; a day without records is NaN
\* after asfreq('D') and 0 after fillna(0)
DaySum(df, column, day) ==
    SumSeq(Column(SelectSeq(df, LAMBDA r : DayOf(r.deliveryDate) = day), column))

\* lines 16-19 without the asfreq('D') of line 18: only the days that have
\* records are kept
prepare_arima_data_NoReindex(df, column) ==
    IF df = <<>>
    THEN [exc |-> "KeyError"]
    ELSE LET first == DayOf(MinDate(df))
             last_day == DayOf(MaxDate(df))
             days == SelectSeq([k \in 1..(last_day - first + 1) |-> first + k - 1],
                               LAMBDA d : \E i \in 1..Len(df) :
                                             DayOf(df[i].deliveryDate) = d)
         IN [exc |-> "none",
             freq |-> "None",
             reindexable |-> TRUE,
             first |-> first,
             last |-> last_day,
             vals |-> [i \in 1..Len(days) |-> DaySum(df, column, days[i])]]

\* prepare_arima_data(df, column): the daily series from the first to the
\* last calendar day of df, indexed by day with frequency 'D'
prepare_arima_data(df, column) ==
    IF df = <<>>
    THEN [exc |-> "KeyError"]
    ELSE LET first == DayOf(MinDate(df))
             last_day == DayOf(MaxDate(df))
         IN [exc |-> "none",
             freq |-> "D",
             reindexable |-> TRUE,
             first |-> first,
             last |-> last_day,
             vals |-> [k \in 1..(last_day - first + 1) |->
                         DaySum(df, column, first + k - 1)]]

----------------------------------------------------------------------------
(* SpecPrep: the daily aggregation of bounded record sets                  *)

\* the frames given to prepare_arima_data: up to MaxReal records in any
\* order, with and without a time of day, with and without a day between
\* them that has no record
PrepTicks == RealTicks \cup {2 * TicksPerDay}

PrepFrames ==
    UNION { { [k \in 1..n |-> RealRecord(k, t[k], v[k])] :
                t \in [1..n -> PrepTicks],
                v \in [1..n -> {"v1", "v2"}] } : n \in 0..MaxReal }

\* the two metrics the service aggregates (main.py lines 48 and 62)
Metrics == {"demand", "totalCost"}

othersPrep == <<arimaVars, insightVars, riskVars, augVars, serviceVars>>

InitPrep ==
    /\ ArimaIdle /\ InsightIdle /\ RiskIdle /\ AugIdle /\ ServiceIdle
    /\ prep_in \in [df : PrepFrames, column : Metrics]
    /\ prep_out = None

\* Preprocessor().prepare_arima_data(df, column)
PrepareArimaData ==
    /\ prep_out = None
    /\ prep_out' = prepare_arima_data(prep_in.df, prep_in.column)
    /\ UNCHANGED <<prep_in, othersPrep>>

NextPrep == PrepareArimaData

SpecPrep == InitPrep /\ [][NextPrep]_vars

\* the records of df that fall on calendar day d, and the sum of a metric
\* over a set of records given by their positions
OnDay(df, d) == {i \in 1..Len(df) : df[i].deliveryDate \div TicksPerDay = d}

RECURSIVE SumAt(_, _, _)
SumAt(df, column, S) ==
    IF S = {} THEN 0
    ELSE LET i == CHOOSE x \in S : TRUE
         IN df[i][column] + SumAt(df, column, S \ {i})

\* the calendar days from the earliest to the latest deliveryDate
FirstDay(df) == MinDate(df) \div TicksPerDay
LastDay(df) == MaxDate(df) \div TicksPerDay

\* the series has one entry per calendar day from the earliest to the latest
\* deliveryDate, each the sum of the metric over that day's records (0 for a
\* day without records)
GapFree(df, column, out) ==
    /\ out.exc = "none"
    /\ out.first = FirstDay(df)
    /\ out.last = LastDay(df)
    /\ DOMAIN out.vals = 1..(LastDay(df) - FirstDay(df) + 1)
    /\ \A d \in FirstDay(df)..LastDay(df) :
          /\ out.vals[d - FirstDay(df) + 1] = SumAt(df, column, OnDay(df, d))
          /\ (OnDay(df, d) = {} => out.vals[d - FirstDay(df) + 1] = 0)

\* C11 as stated: for every non-empty record set and either metric the
\* series is gap-free with the daily sums, and it has exactly span + 1
\* entries, span being the days between the earliest and the latest
\* deliveryDate as the augmentation computes it, (max - min).days
C11_SpanPlusOneEntries ==
    (prep_out # None /\ prep_in.df # <<>>) =>
        /\ GapFree(prep_in.df, prep_in.column, prep_out)
        /\ Len(prep_out.vals) = SpanDays(prep_in.df) + 1

\* C11 amended: for every non-empty record set and either metric the series
\* has one entry for every calendar day from the day of the earliest to the
\* day of the latest deliveryDate, that is (last day - first day) + 1
\* entries, which is span + 1 or span + 2; each entry is the sum of the
\* metric over that day's records and 0 on a day without records
C11_GapFreeDailySeries ==
    (prep_out # None /\ prep_in.df # <<>>) =>
        /\ GapFree(prep_in.df, prep_in.column, prep_out)
        /\ Len(prep_out.vals) = LastDay(prep_in.df) - FirstDay(prep_in.df) + 1
        /\ Len(prep_out.vals) \in {SpanDays(prep_in.df) + 1,
                                    SpanDays(prep_in.df) + 2}

\* a frame whose records leave a calendar day empty and whose times of day
\* make the day count exceed span + 1 was aggregated
C11_Witness ==
    /\ prep_out # None /\ prep_in.df # <<>>
    /\ prep_out.exc = "none"
    /\ \E d \in FirstDay(prep_in.df)..LastDay(prep_in.df) :
          /\ OnDay(prep_in.df, d) = {}
          /\ prep_out.vals[d - FirstDay(prep_in.df) + 1] = 0
    /\ Len(prep_out.vals) = SpanDays(prep_in.df) + 2

----------------------------------------------------------------------------
(* main.py: the service                                                    *)

\* target_days of the startup augmentation
StartupTargetDays == 365

\* SupplierReliabilityModel after __init__ / after train
FeatureNames ==
    <<"vehicle_encoded", "origin_encoded", "distance", "demand",
      "is_alpine_int", "day_of_week", "month">>

RfTrained == [kind |-> "rf", feature_names |-> FeatureNames]

\* lines 16-25; the keys demand_history and spend_history, which the startup
\* adds, are None while absent
ModelsInit ==
    [demand |-> None, spend |-> None, reliability |-> None,
     demand_history |-> None, spend_history |-> None]

DataContextInit ==
    [latest_date |-> None, rf_accuracy |-> 0, total_records |-> 0]

\* lines 32-43: the data of the startup: the frame fetched is augmented to
\* 365 days and counted.  fetched.exc tells whether DBFetcher() or
\* fetch_deliveries raised; an exception here ends the startup (line 87).
StartupData(ctx, fetched, rnd) ==
    IF fetched.exc # "none"
    THEN [exc |-> fetched.exc, ctx |-> ctx, full_df |-> <<>>]
    ELSE LET full_df ==
                 generate_historical_data(fetched.df, StartupTargetDays, rnd).df
             ctx1 == [ctx EXCEPT !.total_records = Len(full_df)]
         IN IF full_df = <<>>
            THEN \* line 41: the empty frame has no deliveryDate column
                 [exc |-> "KeyError", ctx |-> ctx1, full_df |-> <<>>]
            ELSE [exc |-> "none",
                  ctx |-> [ctx1 EXCEPT
                              !.latest_date = [kind |-> "Timestamp",
                                               ticks |-> MaxDate(full_df)]],
                  full_df |-> full_df]

\* lines 49-55 / 63-69 without the test of line 50 / 64: the model is
\* registered whatever train returned
TrainBlockUnchecked(reg, key, hkey, series, o1, o2) ==
    LET r == train(ArimaInit(DefaultOrder), series, o1, o2)
    IN IF r.exc # "none" THEN reg
       ELSE [reg EXCEPT ![key] = r.self, ![hkey] = series]

\* lines 49-57 / 63-71: the rest of an ARIMA block of the startup, once the
\* series is prepared: an ArimaModel(order=(5,1,0)) is trained on it and
\* registered with its history when train returned True; a False or an
\* exception leaves the registry alone
TrainBlock(reg, key, hkey, series, o1, o2) ==
    LET r == train(ArimaInit(DefaultOrder), series, o1, o2)
    IN IF r.ret = "True"
       THEN [reg EXCEPT ![key] = r.self, ![hkey] = series]
       ELSE reg

\* what the same lines print: the lines train prints about a failed attempt
\* (arima_model.py lines 27 and 34) and the outcome (lines 53-57, 67-71)
TrainBlockPrints(key, series, o1, o2) ==
    LET r == train(ArimaInit(DefaultOrder), series, o1, o2)
    IN IF r.exc # "none"
       THEN <<<<key, "FAILED Model">>>>
       ELSE (IF Len(r.fits) > 1
             THEN <<<<key, "Primary ARIMA failed">>>> ELSE <<>>)
            \o (IF r.ret = "True"
                THEN <<<<key, "Model Trained.">>>>
                ELSE <<<<key, "ARIMA Training Error">>,
                       <<key, "Model Failed to Train.">>>>)

\* lines 73-83: the reliability block; rf is "ok" when prepare_rf_data and
\* train went through, "raise" otherwise
RfBlock(reg, ctx, rf) ==
    IF rf = "ok"
    THEN [reg |-> [reg EXCEPT !.reliability = RfTrained],
          ctx |-> [ctx EXCEPT !.rf_accuracy = 80]]
    ELSE [reg |-> reg, ctx |-> ctx]

\* what the reliability block and the end of the startup print (lines 74,
\* 81, 83, 85)
RfBlockPrints(rf) ==
    <<<<"reliability", "Training Model...">>,
      IF rf = "ok" THEN <<"reliability", "RF Accuracy">>
      ELSE <<"reliability", "FAILED Model">>,
      <<"service", "ML Service Ready.">>>>

\* lines 107-109
safe_float(val) == IF val.nan THEN Num(0) ELSE val

\* Python max(0, x): 0 unless x > 0 (a NaN is never greater)
Max0(x) == IF ~x.nan /\ x.v > 0 THEN x ELSE Num(0)

\* pd.Timedelta(days=d): d must be an int or a float
Timedelta(d) ==
    IF d.t = "int"
    THEN [exc |-> "none", ticks |-> d.v * TicksPerDay]
    ELSE [exc |-> "TypeError", ticks |-> 0]

\* Timestamp.isoformat()
IsoFormat(ticks) == [iso |-> ticks]

\* lines 130-140: the response rows built from the frame forecast returned;
\* i is the index label of the row
ForecastOutput(frame, start_date) ==
    IF \E k \in 1..Len(frame) : Timedelta(frame[k].idx).exc # "none"
    THEN [exc |-> "TypeError", output |-> <<>>]
    ELSE [exc |-> "none",
          output |-> [k \in 1..Len(frame) |->
              [date |-> IsoFormat(start_date + Timedelta(frame[k].idx).ticks),
               value |-> safe_float(Max0(frame[k].row.mean)),
               lower |-> safe_float(Max0(frame[k].row.lower)),
               upper |-> safe_float(frame[k].row.upper)]]]

Response(handler, status, body) ==
    [handler |-> handler, status |-> status, body |-> body,
     days |-> 0, trained |-> FALSE, frame |-> <<>>, fallback |-> <<>>]

\* lines 119-148 and 150-178: forecast_demand (key "demand") and
\* forecast_spend (key "spend"); vals are the numbers the fitted model gives
forecast_endpoint(handler, key, hkey, label, metric, days, vals) ==
    LET model == models[key]
        ready == model # None /\ model.model_fit # None
    IN IF ~ready
       THEN Response(handler, 503, [detail |-> "Model not ready"])
       ELSE LET fc == forecast(model, days, vals)
                insight == generate_insight(models[hkey].vals, fc.frame, label)
                start_date == data_context.latest_date.ticks + Days(1)
                out == ForecastOutput(fc.frame, start_date)
                exc == IF fc.exc # "none" THEN fc.exc
                       ELSE IF insight.exc # "none" THEN insight.exc
                       ELSE out.exc
            IN [Response(handler,
                         IF exc = "none" THEN 200 ELSE 500,
                         IF exc = "none"
                         THEN [forecast |-> out.output, insight |-> insight,
                               metric |-> metric]
                         ELSE [detail |-> exc])
                  EXCEPT !.days = days, !.trained = TRUE, !.frame = fc.frame]

\* lines 111-117: all(models.values()) meets the history Series once the
\* three models are registered, and the truth value of a Series raises
health_check ==
    LET keys == {"demand", "spend", "reliability"}
                    \cup {k \in DOMAIN models : models[k] # None}
    IN IF models.demand # None /\ models.spend # None
          /\ models.reliability # None
       THEN Response("health_check", 500, [detail |-> "ValueError"])
       ELSE Response("health_check", 200,
                     [status |-> "ok", models_loaded |-> FALSE,
                      details |-> [k \in keys |-> models[k] # None]])

\* lines 180-200
predict_reliability ==
    IF models.reliability = None
    THEN Response("predict_reliability", 503, [detail |-> "Model not ready"])
    ELSE Response("predict_reliability", 200,
                  [accuracy |-> data_context.rf_accuracy,
                   records_trained |-> data_context.total_records])

\* lines 202-209: the AIC of a fitted model is the fitted model's own number
model_performance ==
    Response("model_performance", 200,
             [arima_demand_aic |->
                  IF models.demand # None /\ models.demand.model_fit # None
                  THEN <<"aic", models.demand.model_fit.order>> ELSE <<>>,
              arima_spend_aic |->
                  IF models.spend # None /\ models.spend.model_fit # None
                  THEN <<"aic", models.spend.model_fit.order>> ELSE <<>>,
              rf_accuracy |-> data_context.rf_accuracy,
              data_points |-> data_context.total_records])

\* lines 218-224
Scenarios ==
    << [name |-> "Vienna Hub -> Salzburg (Mountain)", is_alpine_int |-> 1,
        distance |-> 320, vehicle_encoded |-> 0],
       [name |-> "Graz Inner City (Van)", is_alpine_int |-> 0,
        distance |-> 15, vehicle_encoded |-> 1],
       [name |-> "Innsbruck -> Munich (Long Haul)", is_alpine_int |-> 1,
        distance |-> 180, vehicle_encoded |-> 2],
       [name |-> "Vienna Local Distribution", is_alpine_int |-> 0,
        distance |-> 45, vehicle_encoded |-> 0],
       [name |-> "Klagenfurt -> Villach", is_alpine_int |-> 0,
        distance |-> 40, vehicle_encoded |-> 1] >>

\* the probability substituted at line 245
FallbackProb == 8500

\* round(a / b) for b > 0, ties to even, as Python's round
RoundDiv(a, b) ==
    LET q == a \div b
        r == a % b
    IN IF 2 * r > b \/ (2 * r = b /\ q % 2 = 1) THEN q + 1 ELSE q

\* lines 230-256: the result row of one scenario; pred is what predict_proba
\* did: <<p>> when it returned p, <<>> when it raised
DashRow(s, pred, dt) ==
    LET prob == IF pred = <<>> THEN FallbackProb ELSE pred[1]
        narrative == generate_risk_narrative(
                         [is_alpine_int |-> s.is_alpine_int,
                          distance |-> s.distance, month |-> dt.month,
                          day_of_week |-> <<dt.weekday>>], prob)
    IN [route |-> s.name,
        score |-> RoundDiv(prob, 10),
        insight |-> narrative]

\* sorted(results, key=score): ascending, rows of equal score keep their order
RECURSIVE SortByScore(_)
SortByScore(rows) ==
    IF rows = <<>> THEN <<>>
    ELSE LET m == CHOOSE x \in {rows[i].row.score : i \in 1..Len(rows)} :
                     \A i \in 1..Len(rows) : x <= rows[i].row.score
         IN SelectSeq(rows, LAMBDA r : r.row.score = m)
            \o SortByScore(SelectSeq(rows, LAMBDA r : r.row.score # m))

\* lines 212-258: preds[k] is the outcome of predict_proba for scenario k and
\* dt is datetime.now().  `fallback` records, row by row, whether line 245
\* supplied the probability; it is not part of the response.
dashboard_reliability(preds, dt) ==
    IF models.reliability = None
    THEN Response("dashboard_reliability", 503, [detail |-> "Model not ready"])
    ELSE LET rows == [k \in 1..Len(Scenarios) |->
                         [row |-> DashRow(Scenarios[k], preds[k], dt),
                          fb |-> preds[k] = <<>>]]
             sorted == SortByScore(rows)
         IN [Response("dashboard_reliability", 200,
                      [k \in 1..Len(sorted) |-> sorted[k].row])
               EXCEPT !.fallback = [k \in 1..Len(sorted) |-> sorted[k].fb]]

----------------------------------------------------------------------------
(* Spec: the service: the lifespan startup, then any sequence of requests  *)

\* what DBFetcher.fetch_deliveries gave at startup: nothing, one delivery,
\* or two deliveries on different days by different vehicles
StartupFrames ==
    { <<>>,
      <<RealRecord(1, 1, "v1")>>,
      <<RealRecord(1, 0, "v1"), RealRecord(2, 2 * TicksPerDay + 1, "v2")>> }

Fetched ==
    {[exc |-> "ValueError", df |-> <<>>]}
        \cup {[exc |-> "none", df |-> f] : f \in StartupFrames}

\* the random streams of the startup augmentation: the same n_deliveries on
\* every synthetic day
StartupStreams(days) ==
    { [counts |-> [k \in 1..days |-> c], pick |-> c % 2, noise |-> 9] :
        c \in {1, MaxPerDay} }

\* the numbers the fitted model gives a forecast request: the rows of RowSet
\* in turn, from any first row
RowSeq ==
    <<[mean |-> Num(3), lower |-> Num(1), upper |-> Num(5)],
      [mean |-> Num(1), lower |-> Num(-2), upper |-> Num(4)],
      [mean |-> Num(-1), lower |-> Num(-3), upper |-> Num(1)],
      [mean |-> NaN, lower |-> NaN, upper |-> NaN]>>

ServedFrames(days) ==
    { [k \in 1..days |-> RowSeq[((s + k) % Len(RowSeq)) + 1]] :
        s \in 1..Len(RowSeq) }

\* datetime.now() of a request: a Saturday in January, a Wednesday in June
Nows == {[month |-> 1, weekday |-> 5], [month |-> 6, weekday |-> 2]}

\* what predict_proba does over the five scenarios: one probability for all
\* of them, and at most one scenario on which it raises
Predictions ==
    { [k \in 1..Len(Scenarios) |-> IF k = bad THEN <<>> ELSE <<p>>] :
        p \in {5500, 8496, FallbackProb}, bad \in 0..Len(Scenarios) }

othersService == <<arimaVars, insightVars, riskVars, augVars, prepVars>>

Init ==
    /\ ArimaIdle /\ InsightIdle /\ RiskIdle /\ AugIdle /\ PrepIdle
    /\ phase = "starting"
    /\ boot = None
    /\ models = ModelsInit
    /\ data_context = DataContextInit
    /\ stdout = <<>>
    /\ last = None

\* lifespan, lines 31-43: fetch, augment, count
LifespanData ==
    /\ phase = "starting"
    /\ \E fetched \in Fetched :
         \E rnd \in StartupStreams(
                       IF fetched.df = <<>> THEN 0
                       ELSE DaysNeeded(fetched.df, StartupTargetDays)) :
           LET r == StartupData(data_context, fetched, rnd)
           IN /\ data_context' = r.ctx
              /\ phase' = IF r.exc = "none" THEN "demand" ELSE "serving"
              /\ boot' = IF r.exc = "none"
                         THEN [full_df |-> r.full_df, series |-> None]
                         ELSE None
              /\ stdout' = stdout
                     \o <<<<"service", "Starting ML Service...">>>>
                     \o (IF fetched.exc = "none"
                         THEN <<<<"service", "Fetched records.">>>> ELSE <<>>)
                     \o (IF r.exc = "none" THEN <<>>
                         ELSE <<<<"service", "Startup Error">>>>)
    /\ UNCHANGED <<models, last, othersService>>

\* lifespan, lines 46-48 (and 56-57 when prepare_arima_data raises)
LifespanDemandSeries ==
    /\ phase = "demand"
    /\ LET series == prepare_arima_data(boot.full_df, "demand")
       IN /\ boot' = [boot EXCEPT !.series = series]
          /\ phase' = IF series.exc = "none" THEN "demand_fit" ELSE "spend"
          /\ stdout' = stdout \o <<<<"demand", "Training Model...">>>>
                          \o (IF series.exc = "none" THEN <<>>
                              ELSE <<<<"demand", "FAILED Model">>>>)
    /\ UNCHANGED <<models, data_context, last, othersService>>

\* lifespan, lines 49-57
LifespanDemand ==
    /\ phase = "demand_fit"
    /\ \E o1 \in FitOutcomes, o2 \in FitOutcomes :
          /\ models' = TrainBlock(models, "demand", "demand_history",
                                  boot.series, o1, o2)
          /\ stdout' = stdout \o TrainBlockPrints("demand", boot.series, o1, o2)
    /\ phase' = "spend"
    /\ UNCHANGED <<boot, data_context, last, othersService>>

\* lifespan, lines 60-62 (and 70-71 when prepare_arima_data raises)
LifespanSpendSeries ==
    /\ phase = "spend"
    /\ LET series == prepare_arima_data(boot.full_df, "totalCost")
       IN /\ boot' = [boot EXCEPT !.series = series]
          /\ phase' = IF series.exc = "none" THEN "spend_fit"
                      ELSE "reliability"
          /\ stdout' = stdout \o <<<<"spend", "Training Model...">>>>
                          \o (IF series.exc = "none" THEN <<>>
                              ELSE <<<<"spend", "FAILED Model">>>>)
    /\ UNCHANGED <<models, data_context, last, othersService>>

\* lifespan, lines 63-71
LifespanSpend ==
    /\ phase = "spend_fit"
    /\ \E o1 \in FitOutcomes, o2 \in FitOutcomes :
          /\ models' = TrainBlock(models, "spend", "spend_history",
                                  boot.series, o1, o2)
          /\ stdout' = stdout \o TrainBlockPrints("spend", boot.series, o1, o2)
    /\ phase' = "reliability"
    /\ UNCHANGED <<boot, data_context, last, othersService>>

\* lifespan, lines 73-86, up to the yield
LifespanReliability ==
    /\ phase = "reliability"
    /\ \E rf \in {"ok", "raise"} :
          LET r == RfBlock(models, data_context, rf)
          IN /\ models' = r.reg /\ data_context' = r.ctx
             /\ stdout' = stdout \o RfBlockPrints(rf)
    /\ phase' = "serving"
    /\ boot' = None
    /\ UNCHANGED <<last, othersService>>

\* forecast_demand with an error path that unloads the model whose forecast
\* raised (models["demand"] = None before the HTTP 500)
ForecastDemandUnloading ==
    /\ phase = "serving"
    /\ \E days \in 0..MaxSteps : \E vals \in ServedFrames(days) :
          /\ last' = forecast_endpoint("forecast_demand", "demand",
                                       "demand_history", "Demand",
                                       "Demand (Cases)", days, vals)
          /\ models' = IF last'.status = 500
                       THEN [models EXCEPT !.demand = None]
                       ELSE models
    /\ UNCHANGED <<phase, boot, data_context, stdout, othersService>>

ForecastDemand ==
    /\ phase = "serving"
    /\ \E days \in 0..MaxSteps : \E vals \in ServedFrames(days) :
          last' = forecast_endpoint("forecast_demand", "demand",
                                    "demand_history", "Demand",
                                    "Demand (Cases)", days, vals)
    /\ UNCHANGED <<phase, boot, models, data_context, stdout, othersService>>

ForecastSpend ==
    /\ phase = "serving"
    /\ \E days \in 0..MaxSteps : \E vals \in ServedFrames(days) :
          last' = forecast_endpoint("forecast_spend", "spend",
                                    "spend_history", "Procurement Spend",
                                    "Spend (EUR)", days, vals)
    /\ UNCHANGED <<phase, boot, models, data_context, stdout, othersService>>

HealthCheck ==
    /\ phase = "serving"
    /\ last' = health_check
    /\ UNCHANGED <<phase, boot, models, data_context, stdout, othersService>>

PredictReliability ==
    /\ phase = "serving"
    /\ last' = predict_reliability
    /\ UNCHANGED <<phase, boot, models, data_context, stdout, othersService>>

ModelPerformance ==
    /\ phase = "serving"
    /\ last' = model_performance
    /\ UNCHANGED <<phase, boot, models, data_context, stdout, othersService>>

DashboardReliability ==
    /\ phase = "serving"
    /\ \E preds \in Predictions, dt \in Nows :
          last' = dashboard_reliability(preds, dt)
    /\ UNCHANGED <<phase, boot, models, data_context, stdout, othersService>>

Next ==
    \/ LifespanData
    \/ LifespanDemandSeries
    \/ LifespanDemand
    \/ LifespanSpendSeries
    \/ LifespanSpend
    \/ LifespanReliability
    \/ ForecastDemand
    \/ ForecastSpend
    \/ HealthCheck
    \/ PredictReliability
    \/ ModelPerformance
    \/ DashboardReliability

Spec == Init /\ [][Next]_vars

\* a forecast endpoint answered a request while its model was Trained
ForecastServed ==
    /\ last # None
    /\ last.handler \in {"forecast_demand", "forecast_spend"}
    /\ last.trained

\* the history of the endpoint that answered
ServedHistory ==
    IF last.handler = "forecast_demand" THEN models.demand_history
    ELSE models.spend_history

\* C4 (as claimed): a forecast endpoint called on a Trained model with
\* days = steps >= 1 returns exactly `steps` entries, the k-th dated k
\* calendar days after the last observed date of the series.
C4_ForecastDates ==
    ForecastServed /\ last.days >= 1 =>
        /\ last.status = 200
        /\ Len(last.body.forecast) = last.days
        /\ \A k \in 1..last.days :
              DayOf(last.body.forecast[k].date.iso) = ServedHistory.last + k

\* C9 (as claimed): every row the fitted model produced is answered by an
\* entry whose value and lower are >= 0 and whose upper is the model's own
\* number.
C9_ClampedEntries ==
    ForecastServed /\ last.frame # <<>> =>
        /\ last.status = 200
        /\ \A k \in 1..Len(last.frame) :
              /\ last.body.forecast[k].value.v >= 0
              /\ last.body.forecast[k].lower.v >= 0
              /\ last.body.forecast[k].upper = last.frame[k].row.upper

\* two dashboard responses, one after the other
TwoDashboards ==
    /\ last # None /\ last.handler = "dashboard_reliability"
    /\ last.status = 200
    /\ last'.handler = "dashboard_reliability" /\ last'.status = 200

\* C5 (as claimed): a result row whose probability was the substituted 0.85
\* can be told from a row that carries a genuine prediction: no substituted
\* row of one response equals a genuine row of the next, nor the reverse.
C5_FallbackObservable ==
    [][TwoDashboards =>
          \A i \in 1..Len(last.body) : \A j \in 1..Len(last'.body) :
              last.fallback[i] # last'.fallback[j] =>
                  last.body[i] # last'.body[j]]_vars

\* what the handlers could change: the registry with the trained artifacts
\* and the stored histories in it, the data context, and the startup's own
\* position and local
TrainedState == <<models, data_context, phase, boot>>

\* C12: once the startup has reached the serving state, no step (every step
\* is then a request handler: health, forecast_demand, forecast_spend,
\* predict_reliability, model_performance, dashboard_reliability, in any
\* number and order) changes the model registry, the stored histories, the
\* trained artifacts or the data context.
C12_HandlersReadOnly ==
    [][phase = "serving" => TrainedState' = TrainedState]_vars

\* a forecast request was answered from a registry that holds all three
\* trained models and both histories
C12_Witness ==
    /\ phase = "serving"
    /\ last # None /\ last.handler = "forecast_demand" /\ last.trained
    /\ models.demand # None /\ models.demand.model_fit # None
    /\ models.spend # None /\ models.reliability # None
    /\ models.demand_history # None /\ models.spend_history # None
    /\ data_context.latest_date # None

Printed(line) == \E i \in 1..Len(stdout) : stdout[i] = line

\* the block of model k ran to one of its three ends
BlockEnded(k) ==
    /\ Printed(<<k, "Training Model...">>)
    /\ Cardinality({o \in {"Model Trained.", "Model Failed to Train.",
                             "FAILED Model", "RF Accuracy"} :
                        Printed(<<k, o>>)}) = 1

\* model k is in the registry exactly when its block reported success, and
\* what is registered is a fitted object (with its history)
RegisteredIffTrained ==
    /\ models.demand # None <=> Printed(<<"demand", "Model Trained.">>)
    /\ models.spend # None <=> Printed(<<"spend", "Model Trained.">>)
    /\ models.reliability # None <=> Printed(<<"reliability", "RF Accuracy">>)
    /\ models.demand # None =>
          models.demand.model_fit # None /\ models.demand_history # None
    /\ models.spend # None =>
          models.spend.model_fit # None /\ models.spend_history # None
    /\ models.reliability # None => models.reliability.feature_names # <<>>

\* the state the startup leaves behind: either the data step failed and
\* nothing is registered, or all three blocks ran, each to its own end
StartupOutcome ==
    /\ RegisteredIffTrained
    /\ phase = "serving" =>
          \/ /\ Printed(<<"service", "Startup Error">>)
             /\ ~Printed(<<"service", "ML Service Ready.">>)
             /\ \A k \in {"demand", "spend", "reliability"} : models[k] = None
          \/ /\ Printed(<<"service", "ML Service Ready.">>)
             /\ ~Printed(<<"service", "Startup Error">>)
             /\ \A k \in {"demand", "spend", "reliability"} : BlockEnded(k)

\* how far the startup has come
PhaseRank(p) ==
    CASE p = "starting" -> 0 [] p = "demand" -> 1 [] p = "demand_fit" -> 2
      [] p = "spend" -> 3 [] p = "spend_fit" -> 4 [] p = "reliability" -> 5
      [] p = "serving" -> 6

\* C13: the startup always completes and reaches the serving state,
\* whatever step fails: while it is not serving, its next step can be taken
\* and every step it takes, failed or not, brings it nearer to serving, so
\* that it serves after at most six steps; a failure while training one of
\* the three models leaves that model None and the other blocks still run
\* and register their models; a model is in the registry only if its
\* training succeeded.
C13_StartupCompletes ==
    /\ [](phase # "serving" => ENABLED Next)
    /\ [][phase # "serving" => PhaseRank(phase') > PhaseRank(phase)]_vars
    /\ []StartupOutcome

\* the service is serving after the demand training failed (both fits
\* raised) while the spend and the reliability model were registered
C13_Witness ==
    /\ phase = "serving"
    /\ Printed(<<"demand", "Model Failed to Train.">>)
    /\ models.demand = None
    /\ models.spend # None /\ models.reliability # None

====
